---- MODULE Spec2Model ----
(***************************************************************************)
(* A model of the request pipeline of src/source/index.ts (the current     *)
(* version of the module, lines 198-425): one top-level call of request(), *)
(* its attempts (one per transport request issued by handleRequest), the   *)
(* callbacks the pipeline registers on each attempt's ClientRequest and    *)
(* IncomingMessage, and the resolve/reject handles of the call's promise.  *)
(*                                                                         *)
(* The transport (Node's http/https) is the environment: it delivers to    *)
(* each attempt the events the pipeline has a listener for ('response',    *)
(* 'data', 'end', 'error', 'timeout') and the ones it has no listener for  *)
(* (the response stream being aborted, a connection closing unread).       *)
(*                                                                         *)
(* InstanceSpec is the caller that keeps one Request instance and makes    *)
(* several calls through it: what each call hands to the pipeline and what *)
(* the pipeline leaves in the objects the calls share.                     *)
(***************************************************************************)
EXTENDS Naturals, Integers, Sequences, FiniteSets, TLC

VARIABLES
    options,    \* the RequestOptions object of the call (mutated in place)
    context,    \* the RequestContext: the redirect counter
    attempts,   \* the transport requests issued so far, in order
    settle,     \* the invocations of context.resolve / context.reject
    pc,         \* "idle" before request() is called, "called" after
    defaults,   \* the defaults of the Request instance, if the caller has one
    argument    \* the options the caller gave to the instance's last request()

vars == <<options, context, attempts, settle, pc, defaults, argument>>

\* The state of the caller's Request instance.
instance == <<defaults, argument>>

----------------------------------------------------------------------------
(* Bounds of the model. *)

MaxFollow == 1      \* largest redirect budget (options.follow) explored
MaxChunks == 1      \* most 'data' events delivered to one response
ChainFollow == 2    \* the redirect budget of the calls of ChainSpec

----------------------------------------------------------------------------
(* JavaScript values. *)

Undefined == "undefined"
Null == "null"
UndefinedNum == -1          \* an optional number that is not set

\* JavaScript truthiness of an optional string.
Truthy(s) == s \notin {Undefined, Null, ""}

\* a || '' on an optional string
OrEmpty(s) == IF Truthy(s) THEN s ELSE ""

----------------------------------------------------------------------------
(* url.parse, on the URLs the model draws from. *)

TargetUrls == {"http://a/x", "https://a/x", "http://a:8080/x", "ftp://a/x"}
ProxyUrls == {"http://p:3128/", "https://u:pw@p/"}
LocationHeaders == {Undefined, "https://a/x"}

url_parse(u) ==
    CASE u = "http://a/x" ->
           [protocol |-> "http:", auth |-> Null, hostname |-> "a",
            port |-> Null, path |-> "/x"]
      [] u = "https://a/x" ->
           [protocol |-> "https:", auth |-> Null, hostname |-> "a",
            port |-> Null, path |-> "/x"]
      [] u = "http://a:8080/x" ->
           [protocol |-> "http:", auth |-> Null, hostname |-> "a",
            port |-> "8080", path |-> "/x"]
      [] u = "ftp://a/x" ->
           [protocol |-> "ftp:", auth |-> Null, hostname |-> "a",
            port |-> Null, path |-> "/x"]
      [] u = "http://p:3128/" ->
           [protocol |-> "http:", auth |-> Null, hostname |-> "p",
            port |-> "3128", path |-> "/"]
      [] u = "https://u:pw@p/" ->
           [protocol |-> "https:", auth |-> "u:pw", hostname |-> "p",
            port |-> Null, path |-> "/"]
      [] OTHER ->      \* url.parse('')
           [protocol |-> Null, auth |-> Null, hostname |-> Null,
            port |-> Null, path |-> Null]

----------------------------------------------------------------------------
(* Errors.  name is the class of the value (instanceof), message its text  *)
(* as the pieces of the template literal, response the attached descriptor.*)

NoResponse ==
    [present |-> FALSE, status |-> "", statusCode |-> 0,
     location |-> Undefined, data |-> [type |-> Undefined, text |-> <<>>],
     res |-> 0]

NoError == [name |-> "", message |-> <<>>, response |-> NoResponse]

Error(message) == [name |-> "Error", message |-> message, response |-> NoResponse]

RequestError_NoResponse(message, response) ==
    [name |-> "RequestError", message |-> <<message>>, response |-> NoResponse]

RequestError(message, response) ==
    [name |-> "RequestError", message |-> <<message>>, response |-> response]

isValidateError(error) == error.name = "RequestError"

ProtocolError(protocol) == Error(<<"Protocol ", protocol, " not supported.">>)
TooManyRedirects == Error(<<"Too many redirects">>)
TimeoutError_Bare(timeout) == Error(<<"socket hang up">>)
TimeoutError(timeout) == Error(<<"Timeout of ", ToString(timeout), "ms exceeded">>)
\* what JSON.parse throws
SyntaxError ==
    [name |-> "SyntaxError", message |-> <<"Unexpected end of JSON input">>,
     response |-> NoResponse]
\* the error a ClientRequest emits by itself (connection refused, reset, ...)
TransportError ==
    [name |-> "Error", message |-> <<"socket hang up">>, response |-> NoResponse]

----------------------------------------------------------------------------
redirectCodes == {301, 302, 303, 307, 308}

\* The provider, or the error thrown.
getRequestProvider(protocol) ==
    CASE protocol = "http:" -> [ok |-> TRUE, provider |-> "http.request", error |-> NoError]
      [] protocol = "https:" -> [ok |-> TRUE, provider |-> "https.request", error |-> NoError]
      [] OTHER -> [ok |-> FALSE, provider |-> "", error |-> ProtocolError(protocol)]

\* The port, or the error thrown.
getDefaultPort(protocol) ==
    CASE protocol = "http:" -> [ok |-> TRUE, port |-> "80", error |-> NoError]
      [] protocol = "https:" -> [ok |-> TRUE, port |-> "443", error |-> NoError]
      [] OTHER -> [ok |-> FALSE, port |-> "", error |-> ProtocolError(protocol)]

----------------------------------------------------------------------------
(* Request headers: the OutgoingHttpHeaders object.  A header that is not  *)
(* set is <<>> (Host, Proxy-Authorization), Undefined or UndefinedNum.     *)

EmptyHeaders ==
    [Host |-> <<>>, ProxyAuthorization |-> <<>>,
     ContentType |-> Undefined, ContentLength |-> UndefinedNum]

\* The headers object { 'Content-Type': 'application/x-www-form-urlencoded' }.
FormHeaders ==
    [EmptyHeaders EXCEPT !.ContentType = "application/x-www-form-urlencoded"]

(* Request bodies: type is the result of typeof, text the value.           *)
BodyUndefined == [type |-> "undefined", text |-> ""]
BodyString == [type |-> "string", text |-> "a=1"]
BodyObject == [type |-> "object", text |-> "{a:1}"]
\* Buffer.from('a'): typeof a Buffer is 'object'
BodyBuffer == [type |-> "object", text |-> "<Buffer 61>"]

Bodies == {BodyUndefined, BodyObject}

\* new URLSearchParams(body).toString(), a string
URLSearchParams(body) ==
    IF body = BodyObject THEN [type |-> "string", text |-> "a=1"]
    ELSE [type |-> "string", text |-> ""]

\* JSON.stringify(body), a string
JSON_stringify(body) ==
    CASE body = BodyObject -> [type |-> "string", text |-> "{\"a\":1}"]
      [] body = BodyBuffer ->
           [type |-> "string", text |-> "{\"type\":\"Buffer\",\"data\":[97]}"]
      [] body.text = "a=1" -> [type |-> "string", text |-> "\"a=1\""]
      [] OTHER -> [type |-> "string", text |-> "null"]

\* body.length of a string
StringLength(body) ==
    CASE body.text = "{\"a\":1}" -> 7
      [] body.text = "{\"type\":\"Buffer\",\"data\":[97]}" -> 29
      [] body.text = "\"a=1\"" -> 5
      [] body.text = "null" -> 4
      [] body.text = "a=1" -> 3
      [] OTHER -> 0

\* if (body): a string is truthy unless empty, an object always
BodyTruthy(body) ==
    CASE body.type = "undefined" -> FALSE
      [] body.type = "string" -> body.text # ""
      [] OTHER -> TRUE

\* parseRequestBody({ body, headers }): the body to write and the headers
\* object, which is options.headers itself when the caller gave one.
parseRequestBody(o) ==
    LET headers0 == IF o.hasHeaders THEN o.headers ELSE EmptyHeaders
    IN  IF o.body.type = "object"
        THEN LET headers1 ==
                   IF headers0.ContentType = Undefined
                   THEN [headers0 EXCEPT !.ContentType = "application/json"]
                   ELSE headers0
                 body1 ==
                   IF headers1.ContentType = "application/x-www-form-urlencoded"
                   THEN URLSearchParams(o.body)
                   ELSE o.body
                 \* the form-urlencoded case falls through into this one
                 body2 == JSON_stringify(body1)
             IN  [body |-> body2,
                  headers |-> [headers1 EXCEPT !.ContentLength = StringLength(body2)]]
        ELSE [body |-> o.body, headers |-> headers0]

----------------------------------------------------------------------------
(* The handles of the call's promise.  settle counts the invocations of    *)
(* each handle and keeps the first one, which is the one the promise takes *)
(* (a promise ignores every later invocation).  An invocation is recorded  *)
(* with the attempt whose callback made it and the place in the code it is *)
(* made from.                                                              *)

NoCall ==
    [kind |-> "none", error |-> NoError, response |-> NoResponse,
     attempt |-> 0, site |-> ""]

Invoke(stl, call) ==
    [resolved |-> stl.resolved + (IF call.kind = "resolve" THEN 1 ELSE 0),
     rejected |-> stl.rejected + (IF call.kind = "reject" THEN 1 ELSE 0),
     first |-> IF stl.first = NoCall THEN call ELSE stl.first]

\* context.resolve(response)
Resolve(stl, response, i, site) ==
    Invoke(stl, [kind |-> "resolve", error |-> NoError, response |-> response,
                 attempt |-> i, site |-> site])

\* context.reject(error)
Reject(stl, error, i, site) ==
    Invoke(stl, [kind |-> "reject", error |-> error, response |-> error.response,
                 attempt |-> i, site |-> site])

----------------------------------------------------------------------------
\* Buffer.from(auth).toString('base64')
Base64(auth) == IF auth = "u:pw" THEN "dTpwdw==" ELSE ""

\* handleRequest(options, context): the options object, the attempts and the
\* handle invocations after the call.  The new attempt, if the provider is
\* called, is the last of attempts.
handleRequest(o, atts, stl) ==
    LET reqUrl == url_parse(o.url)
        parsed == parseRequestBody(o)
        method == IF o.method = Undefined THEN "GET" ELSE o.method
        n == Len(atts) + 1
        \* the headers object is options.headers when there is one
        Store(h) == IF o.hasHeaders THEN [o EXCEPT !.headers = h] ELSE o
        Issue(provider, conn, h) ==
            [url |-> o.url, provider |-> provider, conn |-> conn,
             method |-> method, headers |-> h,
             body |-> IF BodyTruthy(parsed.body) THEN parsed.body ELSE BodyUndefined,
             timeout |-> o.timeout, state |-> "inflight",
             statusCode |-> 0, location |-> Undefined, chunks |-> <<>>]
    IN  IF Truthy(o.proxy)
        THEN LET proxyUrl == url_parse(o.proxy)
                 provider == getRequestProvider(OrEmpty(proxyUrl.protocol))
                 defport == getDefaultPort(OrEmpty(proxyUrl.protocol))
                 port == IF reqUrl.port = Null THEN defport.port ELSE reqUrl.port
                 headers1 == [parsed.headers EXCEPT
                                !.Host = <<reqUrl.hostname, ":", port>>]
                 headers2 == IF proxyUrl.auth # Null
                             THEN [headers1 EXCEPT !.ProxyAuthorization =
                                     <<"Basic ", Base64(proxyUrl.auth)>>]
                             ELSE headers1
             IN  IF ~provider.ok
                 THEN [options |-> Store(parsed.headers), attempts |-> atts,
                       settle |-> Reject(stl, provider.error, n, "handleRequest")]
                 ELSE [options |-> Store(headers2),
                       attempts |-> Append(atts,
                           Issue(provider.provider,
                                 [proxyUrl EXCEPT !.auth = Null], headers2)),
                       settle |-> stl]
        ELSE LET provider == getRequestProvider(OrEmpty(reqUrl.protocol))
             IN  IF ~provider.ok
                 THEN [options |-> Store(parsed.headers), attempts |-> atts,
                       settle |-> Reject(stl, provider.error, n, "handleRequest")]
                 ELSE [options |-> Store(parsed.headers),
                       attempts |-> Append(atts,
                           Issue(provider.provider, reqUrl, parsed.headers)),
                       settle |-> stl]

----------------------------------------------------------------------------
(* The response side. *)

Statuses == {200, 404, 302, 303}

\* res.statusMessage
StatusMessage(statusCode) ==
    CASE statusCode = 200 -> "OK"
      [] statusCode = 404 -> "Not Found"
      [] statusCode = 301 -> "Moved Permanently"
      [] statusCode = 302 -> "Found"
      [] statusCode = 303 -> "See Other"
      [] statusCode = 307 -> "Temporary Redirect"
      [] statusCode = 308 -> "Permanent Redirect"
      [] OTHER -> ""

\* The chunks a response stream delivers; Buffer.concat(chunks) is the
\* sequence of chunks received.
Chunks == {"1"}

\* JSON.parse(buffer.toString()): the empty text is not JSON, a text of
\* digits is a number.
JSON_parse(buffer) ==
    IF buffer = <<>>
    THEN [ok |-> FALSE, data |-> [type |-> Undefined, text |-> <<>>]]
    ELSE [ok |-> TRUE, data |-> [type |-> "number", text |-> buffer]]

\* The switch on options.format of the 'end' listener.
Decode(format, buffer) ==
    CASE format = "buffer" -> [ok |-> TRUE, data |-> [type |-> "Buffer", text |-> buffer]]
      [] format = "json" -> JSON_parse(buffer)
      [] OTHER -> [ok |-> TRUE, data |-> [type |-> "string", text |-> buffer]]

Validators == {Undefined, "is404", "below400"}

\* options.validate(statusCode), for the validators of the model and the
\* default one the 'end' listener stores in options.validate.
Validate(validate, statusCode) ==
    CASE validate = "is404" -> statusCode = 404
      [] validate = "below400" -> statusCode < 400
      [] validate = "default" -> statusCode >= 200 /\ statusCode < 300
      [] OTHER -> FALSE

----------------------------------------------------------------------------
(* The state before request() is called: the options the caller built.     *)
(* The options are drawn from two families, one that varies what decides   *)
(* the course of a call (redirect budget, timeout, format, validator) and  *)
(* one that varies what decides the request issued (target, proxy, headers *)
(* object, body).                                                          *)

Follows == {UndefinedNum} \cup 0..MaxFollow

\* An options object without any key.
NoOptions == [k \in {} |-> Undefined]

LifecycleOptions ==
    [url : {"http://a/x", "ftp://a/x"},
     proxy : {Undefined, "http://p:3128/"},
     method : {Undefined, "POST"},
     hasHeaders : {FALSE},
     headers : {EmptyHeaders},
     validate : Validators,
     timeout : {UndefinedNum, 100},
     follow : Follows,
     format : {Undefined, "json", "buffer"},
     body : {BodyUndefined}]

ResolverOptions ==
    [url : TargetUrls,
     proxy : {Undefined} \cup ProxyUrls,
     method : {Undefined, "POST"},
     hasHeaders : BOOLEAN,
     headers : {EmptyHeaders},
     validate : {Undefined},
     timeout : {UndefinedNum},
     follow : {UndefinedNum, MaxFollow},
     format : {Undefined},
     body : Bodies]

Init ==
    /\ options \in LifecycleOptions \cup ResolverOptions
    /\ context = [redirect |-> UndefinedNum]
    /\ attempts = <<>>
    /\ settle = [resolved |-> 0, rejected |-> 0, first |-> NoCall]
    /\ pc = "idle"
    \* the call is made with the function request(), not through an instance
    /\ defaults = NoOptions
    /\ argument = NoOptions

\* request(options): the executor of the promise calls handleRequest.
request ==
    /\ pc = "idle"
    /\ LET r == handleRequest(options, attempts, settle)
       IN  /\ options' = r.options
           /\ attempts' = r.attempts
           /\ settle' = r.settle
    /\ pc' = "called"
    /\ UNCHANGED <<context, instance>>

IsRedirect_IgnoreFollow(statusCode, follow) ==
    statusCode # 0 /\ statusCode \in redirectCodes

\* The condition under which handleCallback treats a response as a redirect.
IsRedirect(statusCode, follow) ==
    statusCode # 0 /\ statusCode \in redirectCodes /\ follow # UndefinedNum

NextRedirect_NoInit(redirect) == redirect + 1

\* if (!context.redirect) context.redirect = 0; ++context.redirect
NextRedirect(redirect) ==
    (IF redirect \in {UndefinedNum, 0} THEN 0 ELSE redirect) + 1

\* ++context.redirect > options.follow
OverBudget(redirect, follow) == redirect > follow

RedirectMethod_Keep(statusCode, method) == method

\* if (statusCode === 303) options.method = 'GET'
RedirectMethod(statusCode, method) ==
    IF statusCode = 303 THEN "GET" ELSE method

\* handleCallback(res, options, context), the 'response' listener of attempt
\* i, for a response with the given status code and Location header.
handleCallback(i, statusCode, location) ==
    /\ i \in 1..Len(attempts)
    /\ attempts[i].state = "inflight"
    /\ LET got == [attempts EXCEPT ![i].statusCode = statusCode,
                                   ![i].location = location]
       IN  IF IsRedirect(statusCode, options.follow)
           THEN LET redirect == NextRedirect(context.redirect)
                    unread == [got EXCEPT ![i].state = "unread"]
                IN  /\ context' = [context EXCEPT !.redirect = redirect]
                    /\ IF OverBudget(redirect, options.follow)
                       THEN /\ settle' = Reject(settle, TooManyRedirects, i,
                                                "handleCallback")
                            /\ attempts' = unread
                            /\ UNCHANGED options
                       ELSE LET o1 == [options EXCEPT !.method =
                                         RedirectMethod(statusCode, @)]
                                o2 == [o1 EXCEPT !.url = OrEmpty(location)]
                                r == handleRequest(o2, unread, settle)
                            IN  /\ options' = r.options
                                /\ attempts' = r.attempts
                                /\ settle' = r.settle
           ELSE /\ attempts' = [got EXCEPT ![i].state = "collecting"]
                /\ UNCHANGED <<options, context, settle>>
    /\ UNCHANGED <<pc, instance>>

\* The 'data' listener of the response of attempt i.
resOnData(i, chunk) ==
    /\ i \in 1..Len(attempts)
    /\ attempts[i].state = "collecting"
    /\ Len(attempts[i].chunks) < MaxChunks
    /\ attempts' = [attempts EXCEPT ![i].chunks = Append(@, chunk)]
    /\ UNCHANGED <<options, context, settle, pc, instance>>

\* The response descriptor the 'end' listener of attempt i builds.
Response(i, data) ==
    [present |-> TRUE, status |-> StatusMessage(attempts[i].statusCode),
     statusCode |-> attempts[i].statusCode, location |-> attempts[i].location,
     data |-> data, res |-> i]

\* The 'end' listener of the response of attempt i.
resOnEnd(i) ==
    /\ i \in 1..Len(attempts)
    /\ attempts[i].state = "collecting"
    /\ attempts' = [attempts EXCEPT ![i].state = "ended"]
    /\ LET decoded == Decode(options.format, attempts[i].chunks)
           validate == IF options.validate = Undefined
                       THEN "default" ELSE options.validate
           response == Response(i, decoded.data)
       IN  IF ~decoded.ok
           THEN /\ settle' = Reject(settle, SyntaxError, i, "end")
                /\ UNCHANGED options
           ELSE /\ options' = [options EXCEPT !.validate = validate]
                /\ settle' =
                     IF Validate(validate, attempts[i].statusCode)
                     THEN Resolve(settle, response, i, "end")
                     ELSE Reject(settle,
                                 RequestError(response.status, response),
                                 i, "end")
    /\ UNCHANGED <<context, pc, instance>>

\* The states of an attempt in which its ClientRequest is alive: the request
\* is issued and neither destroyed nor done with its response.
Live == {"inflight", "collecting", "unread"}

\* The 'error' listener of the request of attempt i.
reqOnError(i) ==
    /\ i \in 1..Len(attempts)
    /\ attempts[i].state \in Live
    /\ attempts' = [attempts EXCEPT ![i].state = "errored"]
    /\ settle' = Reject(settle, TransportError, i, "error")
    /\ UNCHANGED <<options, context, pc, instance>>

\* The 'timeout' listener of the request of attempt i: req.destroy(error)
\* makes the request emit 'error' with that error.
reqOnTimeout(i) ==
    /\ i \in 1..Len(attempts)
    /\ attempts[i].state \in Live
    /\ attempts[i].timeout # UndefinedNum
    /\ attempts' = [attempts EXCEPT ![i].state = "timedout"]
    /\ settle' = Reject(settle, TimeoutError(attempts[i].timeout), i, "timeout")
    /\ UNCHANGED <<options, context, pc, instance>>

\* The response stream of attempt i fails before its end ('aborted', 'error'
\* and 'close' of the IncomingMessage): no listener is registered for it.
resAborted(i) ==
    /\ i \in 1..Len(attempts)
    /\ attempts[i].state = "collecting"
    /\ attempts' = [attempts EXCEPT ![i].state = "aborted"]
    /\ UNCHANGED <<options, context, settle, pc, instance>>

\* The connection of attempt i, whose response nobody reads, is closed by
\* the server: the request emits 'close' alone.
reqClose(i) ==
    /\ i \in 1..Len(attempts)
    /\ attempts[i].state = "unread"
    /\ attempts' = [attempts EXCEPT ![i].state = "closed"]
    /\ UNCHANGED <<options, context, settle, pc, instance>>

Next ==
    \/ request
    \/ \E i \in 1..Len(attempts), statusCode \in Statuses,
          location \in LocationHeaders :
            \* only a redirect response carries a Location header
            /\ statusCode \notin redirectCodes => location = Undefined
            /\ handleCallback(i, statusCode, location)
    \/ \E i \in 1..Len(attempts), chunk \in Chunks : resOnData(i, chunk)
    \/ \E i \in 1..Len(attempts) : resOnEnd(i)
    \/ \E i \in 1..Len(attempts) : reqOnError(i)
    \/ \E i \in 1..Len(attempts) : reqOnTimeout(i)
    \/ \E i \in 1..Len(attempts) : resAborted(i)
    \/ \E i \in 1..Len(attempts) : reqClose(i)

Spec == Init /\ [][Next]_vars

\* The calls with a timeout: the timer of a request that stays idle fires.
TimeoutInit ==
    /\ Init
    /\ options \in LifecycleOptions
    /\ options.timeout # UndefinedNum
    /\ options.method = Undefined
    /\ options.validate = Undefined

TimeoutSpec ==
    /\ TimeoutInit
    /\ [][Next]_vars
    /\ \A i \in 1..(MaxFollow + 1) : WF_vars(reqOnTimeout(i))

\* The calls that may follow a chain of redirects: a budget of ChainFollow,
\* a plain GET of an http target, with or without a timeout.
ChainOptions ==
    [url : {"http://a/x"},
     proxy : {Undefined},
     method : {Undefined},
     hasHeaders : {FALSE},
     headers : {EmptyHeaders},
     validate : {Undefined},
     timeout : {UndefinedNum, 100},
     follow : {ChainFollow},
     format : {Undefined},
     body : {BodyUndefined}]

ChainInit ==
    /\ options \in ChainOptions
    /\ context = [redirect |-> UndefinedNum]
    /\ attempts = <<>>
    /\ settle = [resolved |-> 0, rejected |-> 0, first |-> NoCall]
    /\ pc = "idle"
    /\ defaults = NoOptions
    /\ argument = NoOptions

ChainSpec == ChainInit /\ [][Next]_vars

----------------------------------------------------------------------------
(* class Request: an instance holds the defaults object it was constructed *)
(* with, and its request(options) calls request({...this.defaults,         *)
(* ...options}).  An options object is a function from the keys it has to  *)
(* their values.  The caller below keeps one instance and makes any number *)
(* of calls through it; each call is taken up to the return of             *)
(* handleRequest, and attempts, context and settle are those of the last   *)
(* call made.                                                              *)

\* The value the pipeline reads for a key the options object does not have.
Absent(k) ==
    CASE k \in {"timeout", "follow"} -> UndefinedNum
      [] k = "body" -> BodyUndefined
      [] k = "headers" -> EmptyHeaders
      [] OTHER -> Undefined

Read(o, k) == IF k \in DOMAIN o THEN o[k] ELSE Absent(k)

\* The options object as the pipeline reads it.
AsOptions(o) ==
    [url |-> Read(o, "url"), proxy |-> Read(o, "proxy"),
     method |-> Read(o, "method"),
     hasHeaders |-> "headers" \in DOMAIN o, headers |-> Read(o, "headers"),
     validate |-> Read(o, "validate"), timeout |-> Read(o, "timeout"),
     follow |-> Read(o, "follow"), format |-> Read(o, "format"),
     body |-> Read(o, "body")]

Merge_DefaultsWin(d, o) ==
    [k \in DOMAIN d \cup DOMAIN o |-> IF k \in DOMAIN d THEN d[k] ELSE o[k]]

\* { ...d, ...o }
Merge(d, o) ==
    [k \in DOMAIN d \cup DOMAIN o |-> IF k \in DOMAIN o THEN o[k] ELSE d[k]]

\* The objects that have the key k with a value of V, or do not have it.
Optional(k, V) == {NoOptions} \cup {[x \in {k} |-> v] : v \in V}

\* The defaults the instance is constructed with: its headers object, if
\* any, is shared by every call that gives none of its own.
InstanceDefaults ==
    {Merge(Merge(h, p), t) :
        h \in Optional("headers", {EmptyHeaders}),
        p \in Optional("proxy", {"https://u:pw@p/"}),
        t \in Optional("timeout", {100})}

\* The options of one call: a target, and possibly a proxy, a body, a
\* timeout and a headers object written for that call.
CallOptions ==
    {o \in {Merge(Merge(Merge(Merge([url |-> u], p), b), t), h) :
                u \in {"http://a/x"},
                p \in Optional("proxy", {Undefined, "http://p:3128/",
                                         "https://u:pw@p/"}),
                b \in Optional("body", {BodyString, BodyObject, BodyBuffer}),
                t \in Optional("timeout", {100}),
                h \in Optional("headers", {EmptyHeaders, FormHeaders})} :
        \* new URLSearchParams(buffer) is left out
        ~ (Read(o, "headers") = FormHeaders /\ Read(o, "body") = BodyBuffer)}

\* new Request(defaults)
InstanceInit ==
    /\ defaults \in InstanceDefaults
    /\ argument = NoOptions
    /\ options = AsOptions(NoOptions)
    /\ context = [redirect |-> UndefinedNum]
    /\ attempts = <<>>
    /\ settle = [resolved |-> 0, rejected |-> 0, first |-> NoCall]
    /\ pc = "constructed"

\* instance.request(o): the merged object is new, its headers object is the
\* one of the defaults unless o has its own, and handleRequest writes the
\* headers of the request into it.
Request_request(o) ==
    LET merged == Merge(defaults, o)
        r == handleRequest(AsOptions(merged), <<>>,
                           [resolved |-> 0, rejected |-> 0, first |-> NoCall])
    IN  /\ argument' = o
        /\ options' = r.options
        /\ attempts' = r.attempts
        /\ settle' = r.settle
        /\ context' = [redirect |-> UndefinedNum]
        /\ defaults' =
             IF "headers" \in DOMAIN defaults /\ "headers" \notin DOMAIN o
             THEN [defaults EXCEPT !["headers"] = r.options.headers]
             ELSE defaults
        /\ pc' = "called"

\* instance.defaults.timeout = 5000
setDefaultTimeout ==
    /\ defaults' = Merge(defaults, [timeout |-> 5000])
    /\ pc' = "assigned"
    /\ UNCHANGED <<options, context, attempts, settle, argument>>

InstanceNext ==
    \/ \E o \in CallOptions : Request_request(o)
    \/ setDefaultTimeout

InstanceSpec == InstanceInit /\ [][InstanceNext]_vars

----------------------------------------------------------------------------
(* Properties of the pipeline.                                             *)

Attempts == 1..Len(attempts)

\* The response of attempt i ended and its body decoded without error.
Decoded(i) ==
    /\ attempts[i].state = "ended"
    /\ \/ options.format # "json"
       \/ attempts[i].chunks # <<>>

\* A callback of attempt i rejected the call with an error of the request.
ErrorFired(i) == attempts[i].state \in {"errored", "timedout"}

\* What a validator makes of a status code: the default one accepts
\* 200 <= code < 300.
Accepts(validate, statusCode) ==
    CASE validate = "is404" -> statusCode = 404
      [] validate = "below400" -> statusCode < 400
      [] OTHER -> statusCode >= 200 /\ statusCode < 300

\* The call is settled with the response of attempt i and its decoded data.
ResolvedWith(i) ==
    /\ settle.first.kind = "resolve"
    /\ settle.first.response.present
    /\ settle.first.response.res = i
    /\ settle.first.response.statusCode = attempts[i].statusCode
    /\ settle.first.response.data.text = attempts[i].chunks

\* The call is settled with a RequestError that carries the response of
\* attempt i.
RejectedWithResponse(i) ==
    /\ settle.first.kind = "reject"
    /\ settle.first.error.name = "RequestError"
    /\ settle.first.error.response.present
    /\ settle.first.error.response.res = i
    /\ settle.first.error.response.statusCode = attempts[i].statusCode

\* No request of the call has emitted a transport error.
NoTransportError == \A i \in Attempts : attempts[i].state # "errored"

\* C1: for every top-level call, over any interleaving of the callbacks of
\* all its attempts (superseded ones included), resolve and reject are
\* invoked at most once in total: never both, never one of them twice, and
\* an error callback never fires in addition to a completed decode.
C1_SettledOnce ==
    /\ settle.resolved + settle.rejected <= 1
    /\ ~ \E i, j \in Attempts : Decoded(i) /\ ErrorFired(j)

\* C2: with follow = N, a call whose server answers N+1 consecutive
\* redirect-eligible statuses ends rejected with 'Too many redirects', and a
\* call that receives exactly N of them and then a non-redirect response
\* that decodes and passes the validator resolves with that final response
\* (stated for the calls none of whose requests emits a transport error).
C2_RedirectBudget ==
    LET N == options.follow
        Redirected(i) == attempts[i].statusCode \in redirectCodes
    IN  (N # UndefinedNum /\ Len(attempts) = N + 1 /\ NoTransportError
         /\ \A i \in 1..N : Redirected(i))
        => /\ Redirected(N + 1) =>
                /\ settle.first.kind = "reject"
                /\ settle.first.error.message = <<"Too many redirects">>
           /\ (Decoded(N + 1) /\ ~Redirected(N + 1)
               /\ Accepts(options.validate, attempts[N + 1].statusCode))
                => ResolvedWith(N + 1)

\* C3 as stated: with follow not set, a response with a redirect-eligible
\* status code makes the call resolve with that response's own data, and no
\* second attempt is issued.
C3_Original ==
    \A i \in Attempts :
        (options.follow = UndefinedNum /\ Decoded(i)
         /\ attempts[i].statusCode \in redirectCodes)
        => Len(attempts) = 1 /\ ResolvedWith(i)

\* C3: with follow not set, a response with a redirect-eligible status code
\* is never followed (no second attempt is issued and the redirect counter
\* stays unset); it is collected like any other response, and once its body
\* has ended and decoded the call resolves with that response's own data if
\* the validator accepts its status code and is rejected with a RequestError
\* carrying that response if not, as under the default validator.
C3_NoRedirectWithoutFollow ==
    options.follow = UndefinedNum =>
        /\ Len(attempts) <= 1
        /\ context.redirect = UndefinedNum
        /\ \A i \in Attempts :
             attempts[i].statusCode \in redirectCodes =>
                /\ attempts[i].state # "unread"
                /\ Decoded(i) =>
                     IF Accepts(options.validate, attempts[i].statusCode)
                     THEN ResolvedWith(i)
                     ELSE RejectedWithResponse(i)

C3_Witness ==
    /\ options.follow = UndefinedNum
    /\ \E i \in Attempts :
         attempts[i].statusCode = 302 /\ Decoded(i) /\ ResolvedWith(i)

\* C4: for every completed response that is not followed as a redirect and
\* whose body decodes, the call resolves with the response descriptor if the
\* validator returns true for its status code (200 <= code < 300 by
\* default), and otherwise rejects with a RequestError whose descriptor
\* carries that status code (stated for the calls none of whose requests
\* emits a transport error).
C4_ValidatorDecides ==
    \A i \in Attempts :
        (Decoded(i) /\ NoTransportError) =>
            IF Accepts(options.validate, attempts[i].statusCode)
            THEN ResolvedWith(i)
            ELSE RejectedWithResponse(i)

\* The call is rejected for a status the validator refused: by the 'end'
\* listener of an attempt whose body decoded.
ValidationFailure ==
    /\ settle.first.kind = "reject"
    /\ settle.first.site = "end"
    /\ settle.first.attempt \in Attempts
    /\ Decoded(settle.first.attempt)
    /\ ~Accepts(options.validate, attempts[settle.first.attempt].statusCode)

\* C5: the rejection of a call satisfies isValidateError (is a RequestError
\* with a response descriptor attached) exactly when it is a status
\* validation failure; a rejection for an unsupported scheme, a transport
\* error, a timeout, too many redirects or a parse failure is not a
\* RequestError and carries no response descriptor.
C5_ValidateErrorOnly ==
    settle.first.kind = "reject" =>
        /\ isValidateError(settle.first.error) <=> ValidationFailure
        /\ ValidationFailure => RejectedWithResponse(settle.first.attempt)
        /\ ~ValidationFailure =>
             /\ settle.first.error.name \in {"Error", "SyntaxError"}
             /\ ~settle.first.error.response.present
             /\ settle.first.site \in
                  {"handleRequest", "handleCallback", "end", "error", "timeout"}

C5_Witness ==
    /\ ValidationFailure
    /\ isValidateError(settle.first.error)
    /\ settle.first.error.response.statusCode = 404

\* Attempt i waits for a response that has not come, with a timeout set.
Waiting(i) ==
    /\ i \in Attempts
    /\ attempts[i].state = "inflight"
    /\ attempts[i].timeout # UndefinedNum

\* The dedicated error of a timeout of 100 ms.
RejectedWithTimeout ==
    /\ settle.first.kind = "reject"
    /\ settle.first.site = "timeout"
    /\ settle.first.error.name = "Error"
    /\ settle.first.error.message = <<"Timeout of ", "100", "ms exceeded">>
    /\ ~settle.first.error.response.present

\* The 'timeout' listener of some attempt runs in this step.
TimeoutFires ==
    \E i \in Attempts :
        attempts[i].state # "timedout" /\ attempts'[i].state = "timedout"

\* C6: when a timeout is configured and the server never responds to the
\* current attempt, the call is eventually rejected, not left pending; short
\* of a transport error it is rejected with the dedicated 'Timeout of <t>ms
\* exceeded' error, through the reject handle of the call, and the timeout
\* never issues a new attempt.
C6_TimeoutRejects ==
    /\ [](settle.first.site = "timeout" => RejectedWithTimeout)
    /\ []((NoTransportError /\ settle.first.kind # "none"
           /\ \E i \in Attempts : Waiting(i)) => RejectedWithTimeout)
    /\ \A i \in 1..(MaxFollow + 1) :
         Waiting(i) ~> \/ settle.first.kind = "reject"
                       \/ (i \in Attempts /\ attempts[i].statusCode # 0)
    /\ [][TimeoutFires =>
            /\ Len(attempts') = Len(attempts)
            /\ settle'.rejected = settle.rejected + 1
            /\ settle'.resolved = settle.resolved]_vars

C6_Witness ==
    /\ RejectedWithTimeout
    /\ settle.first.attempt = Len(attempts)
    /\ attempts[Len(attempts)].state = "timedout"
    /\ attempts[Len(attempts)].statusCode = 0

\* C7: no error of the transport or of the response stream, a failure after
\* the response headers arrived included, is swallowed: when no attempt of
\* the call can deliver anything any more, and whenever a response stream
\* has failed, the call is settled (resolved or rejected).
C7_NoErrorSwallowed ==
    /\ \A i \in Attempts : attempts[i].state = "aborted" => settle.rejected >= 1
    /\ (pc = "called" /\ \A i \in Attempts : attempts[i].state \notin Live)
         => settle.resolved + settle.rejected >= 1

\* C8: whenever the scheme of the target URL is neither http nor https, with
\* or without a proxy, no transport request is issued for that attempt and
\* the call is rejected with the 'Protocol ... not supported' error.
C8_UnsupportedScheme ==
    /\ \A i \in Attempts :
         url_parse(attempts[i].url).protocol \in {"http:", "https:"}
    /\ (pc = "called" /\ attempts = <<>>) =>
         /\ settle.first.kind = "reject"
         /\ settle.first.error.name = "Error"
         /\ settle.first.error.message \in
              {<<"Protocol ", "ftp:", " not supported.">>,
               <<"Protocol ", "", " not supported.">>}

\* The default port of a scheme: 80 for http, 443 for https.
SchemePort(protocol) == IF protocol = "https:" THEN "443" ELSE "80"

\* C9: when a proxy is configured, the Host header of every attempt is
\* '<target host>:<port>', the port being the explicit port of the target
\* URL if it has one and the default port of the target's own scheme if not.
C9_ProxyHostHeader ==
    \A i \in Attempts :
        LET target == url_parse(attempts[i].url)
        IN  (Truthy(options.proxy) /\ target.protocol \in {"http:", "https:"})
            => attempts[i].headers.Host =
                 <<target.hostname, ":",
                   IF target.port # Null THEN target.port
                   ELSE SchemePort(target.protocol)>>

\* C10: when a proxy is configured, every attempt connects to the host and
\* port of the proxy while its request line is that of the real target URL
\* (its path, or the target URL itself), not that of the proxy URL.
C10_ProxyRequestLine ==
    \A i \in Attempts :
        Truthy(options.proxy) =>
            /\ attempts[i].conn.hostname = url_parse(options.proxy).hostname
            /\ attempts[i].conn.port = url_parse(options.proxy).port
            /\ attempts[i].conn.path \in
                 {url_parse(attempts[i].url).path, attempts[i].url}

\* C17: when a followed redirect has status exactly 303, the next attempt is
\* issued with method GET whatever the method was; when the followed
\* redirect has status 301, 302, 307 or 308, the next attempt keeps the
\* method of the attempt that was redirected.
C17_RedirectMethod ==
    \A i \in Attempts :
        (i + 1) \in Attempts =>
            /\ attempts[i].statusCode \in redirectCodes
            /\ attempts[i].statusCode = 303 => attempts[i + 1].method = "GET"
            /\ attempts[i].statusCode \in {301, 302, 307, 308} =>
                 attempts[i + 1].method = attempts[i].method

C17_Witness ==
    /\ Len(attempts) >= 2
    /\ attempts[1].method = "POST"
    /\ attempts[1].statusCode = 303
    /\ attempts[2].method = "GET"

\* The redirect counter of the call, 0 while context.redirect is not set.
RedirectCounter ==
    IF context.redirect = UndefinedNum THEN 0 ELSE context.redirect

\* The redirect-eligible responses the call has received.
RedirectsReceived ==
    Cardinality({i \in Attempts : attempts[i].statusCode \in redirectCodes})

\* The redirect counter has exceeded the budget.
BudgetExceeded ==
    options.follow # UndefinedNum /\ RedirectCounter > options.follow

\* C18: in every reachable state of a call the redirect counter equals the
\* number of redirect-eligible responses received while a follow budget was
\* configured (it is not incremented by any other status, nor when follow
\* is unset); it never exceeds follow + 1; and a state in which it exceeds
\* follow is a rejected state that is terminal: the call stays rejected, the
\* counter stays, and no further attempt is issued.
C18_RedirectCounter ==
    /\ [](RedirectCounter =
            IF options.follow = UndefinedNum THEN 0 ELSE RedirectsReceived)
    /\ [](options.follow # UndefinedNum =>
            RedirectCounter <= options.follow + 1)
    /\ [](BudgetExceeded => settle.first.kind = "reject")
    /\ [][BudgetExceeded =>
            /\ Len(attempts') = Len(attempts)
            /\ context' = context
            /\ settle'.first = settle.first
            /\ settle'.resolved = settle.resolved]_vars

C18_Witness ==
    /\ options.follow = MaxFollow
    /\ context.redirect = MaxFollow + 1
    /\ RedirectsReceived = MaxFollow + 1
    /\ settle.first.kind = "reject"
    /\ settle.first.error = TooManyRedirects

\* C19: when follow is configured and a redirect-eligible response within
\* the budget has no Location header, the next attempt has the empty string
\* as URL and fails at the resolution of its scheme: no transport request is
\* issued for it and the call is rejected, with or without a proxy.
C19_MissingLocation ==
    \A i \in Attempts :
        (/\ options.follow # UndefinedNum
         /\ attempts[i].statusCode \in redirectCodes
         /\ attempts[i].location = Undefined
         /\ i <= options.follow)
        => /\ Len(attempts) = i
           /\ settle.first.kind = "reject"

\* C20: at every moment of a call at most one transport operation is in
\* flight: once a redirect has started a new attempt, the request of the
\* previous attempt is finished, so that it can deliver no data, error or
\* timeout callback to the call any more.
C20_OneInFlight ==
    /\ Cardinality({i \in Attempts : attempts[i].state \in Live}) <= 1
    /\ \A i \in Attempts :
         (i + 1) \in Attempts => attempts[i].state \notin {"errored", "timedout"}

\* C11: a request carries the header Proxy-Authorization: Basic
\* <base64(credentials)> if and only if it goes through a proxy whose URL
\* has credentials; the connection descriptor of a proxy request has no
\* credentials; and a request that goes directly to its target never
\* carries proxy credentials, whatever calls were made before through the
\* same Request instance or with the same headers object.
C11_ProxyAuthorization ==
    \A i \in Attempts :
        LET credentials ==
              /\ Truthy(options.proxy)
              /\ url_parse(options.proxy).auth # Null
        IN  /\ attempts[i].headers.ProxyAuthorization =
                 IF credentials THEN <<"Basic ", "dTpwdw==">> ELSE <<>>
            /\ Truthy(options.proxy) => attempts[i].conn.auth = Null

\* C12: the pipeline does not mutate the options object it was given: no
\* step of a call changes its url, method, validator, headers or any other
\* of its keys, so that a later call made with the same object sees what
\* the caller wrote.
C12_OptionsUnchanged == [][options' = options]_vars

\* The keys of RequestOptions the model has.
OptionKeys ==
    {"url", "proxy", "method", "headers", "validate", "timeout", "follow",
     "format", "body"}

\* C13: Request.request(options) calls the entry point with the shallow
\* merge of the instance defaults and the options of the call: every key
\* the call gives has the value the call gives, every other key of the
\* defaults has the value the defaults have at the time of the call (so an
\* assignment to instance.defaults made before the call is seen by it), a
\* key neither has is absent, and the headers object taken from the
\* defaults is the defaults' own object, not a copy.
C13_MergedDefaults ==
    [][pc' = "called" =>
         /\ \A k \in OptionKeys \ {"headers"} :
              options'[k] =
                IF k \in DOMAIN argument' THEN argument'[k]
                ELSE IF k \in DOMAIN defaults THEN defaults[k]
                ELSE Absent(k)
         /\ options'.hasHeaders <=>
              ("headers" \in DOMAIN argument' \/ "headers" \in DOMAIN defaults)
         /\ ("headers" \notin DOMAIN argument' /\ "headers" \in DOMAIN defaults)
              => options'.headers = defaults'["headers"]]_vars

C13_Witness ==
    /\ pc = "called"
    /\ "timeout" \in DOMAIN defaults /\ "timeout" \notin DOMAIN argument
    /\ defaults["timeout"] = 5000 /\ options.timeout = 5000
    /\ "proxy" \in DOMAIN defaults /\ "proxy" \in DOMAIN argument
    /\ argument["proxy"] # defaults["proxy"]
    /\ options.proxy = argument["proxy"]

\* C14: for every attempt of every call whose body is omitted, no body is
\* written to the transport and the request has no Content-Length header
\* set by the pipeline, whatever calls were made before through the same
\* Request instance or with the same headers object.
C14_NoBodyNoLength ==
    \A i \in Attempts :
        options.body = BodyUndefined =>
            /\ attempts[i].body = BodyUndefined
            /\ attempts[i].headers.ContentLength = UndefinedNum

\* C15: when the body is an object and the caller provides the Content-Type
\* application/x-www-form-urlencoded, the body written to the transport is
\* the URL-encoded key/value string of the object.
C15_FormBody ==
    \A i \in Attempts :
        (/\ options.body = BodyObject
         /\ options.hasHeaders
         /\ options.headers.ContentType = "application/x-www-form-urlencoded")
        => attempts[i].body = [type |-> "string", text |-> "a=1"]

\* The headers object of the last call is not one an earlier call has used.
OwnHeaders == "headers" \in DOMAIN argument \/ "headers" \notin DOMAIN defaults

\* C16: a body that is already text or bytes (a string or a Buffer) is
\* written to the transport unmodified, and no Content-Type or
\* Content-Length header is added for it; a structured body is serialized,
\* and its Content-Type defaults to application/json when the caller set
\* none.
C16_TextBodyUntouched ==
    \A i \in Attempts :
        /\ options.body \in {BodyString, BodyBuffer} =>
             /\ attempts[i].body = options.body
             /\ OwnHeaders =>
                  /\ attempts[i].headers.ContentType =
                       Read(argument, "headers").ContentType
                  /\ attempts[i].headers.ContentLength = UndefinedNum
        /\ (/\ options.body = BodyObject
            /\ OwnHeaders
            /\ Read(argument, "headers").ContentType = Undefined)
           => /\ attempts[i].body = [type |-> "string", text |-> "{\"a\":1}"]
              /\ attempts[i].headers.ContentType = "application/json"

\* A handle of the call's promise has been invoked.
Settled == settle.resolved + settle.rejected >= 1

\* C21: the number of transport requests issued by one call never exceeds
\* follow + 1 (1 when follow is unset), and no transport request is issued
\* by a call once its resolve or reject handle has been invoked, in
\* particular not after a transport error or a timeout.
C21_NoRequestAfterSettle ==
    /\ [](Len(attempts) <=
            IF options.follow = UndefinedNum THEN 1 ELSE options.follow + 1)
    /\ [][Settled => Len(attempts') = Len(attempts)]_vars

====
